---- MODULE Spec2Model ----
(***************************************************************************)
(* StudyMatch (src/studymatch.py): scoring of a seeker against every other *)
(* student record, the max-heap of (-score, student) pairs that            *)
(* find_matches builds and get_best_match drains, the tie-break heap and   *)
(* the per-student resource lists.                                          *)
(*                                                                         *)
(* A Python dict keeps insertion order, so student_index is a sequence of  *)
(* Student records with pairwise distinct ut_eid.  A reference to a        *)
(* Student object is its ut_eid.  Python list positions are 0-based: the   *)
(* element at Python position p of a list h is h[p + 1] here.              *)
(***************************************************************************)
EXTENDS Integers, Sequences, FiniteSets, TLC

VARIABLES student_index, open_slots_queue, match_heap, tie_break_heap,
          ret, ranked_for, drained

vars == <<student_index, open_slots_queue, match_heap, tie_break_heap,
          ret, ranked_for, drained>>

\* ------------------------------------------------------------------ bounds
\* tie_break_heap, the resource lists and open_slots_queue only ever grow:
\* the number of calls that made them grow is at most MaxGrowth
MaxGrowth == 3

\* ------------------------------------------------------- strings and lists
None == "None"

Range(s) == {s[i] : i \in 1..Len(s)}

Max(a, b) == IF a >= b THEN a ELSE b

Abs(x) == IF x < 0 THEN -x ELSE x

\* str.lower() on the strings that occur with upper-case letters
LowerMap ==
  [s \in {"John", "Ana", "Ben", "Alex", "Sam", "SAM", "Sue",
          "Quiet", "NONE", "Group"} |->
     CASE s = "John" -> "john" [] s = "Ana" -> "ana" [] s = "Ben" -> "ben"
       [] s = "Alex" -> "alex" [] s = "Sam" -> "sam" [] s = "SAM" -> "sam"
       [] s = "Sue" -> "sue" [] s = "Quiet" -> "quiet"
       [] s = "NONE" -> "none" [] s = "Group" -> "group"]

Lower(s) == IF s \in DOMAIN LowerMap THEN LowerMap[s] ELSE s

\* the strings the tie-break heap compares, in Python's str order
StrOrder == <<"ajones", "alex", "ana", "bchen", "ben", "john", "jsmith",
              "s1", "s2", "s3", "sam", "sue">>

StrPos(s) == CHOOSE i \in 1..Len(StrOrder) : StrOrder[i] = s

StrLt(a, b) == StrPos(a) < StrPos(b)

\* resource texts are sequences of characters; " " is the whitespace
IsSpace(c) == c = " "

RECURSIVE LStrip(_)
LStrip(t) == IF t # <<>> /\ IsSpace(Head(t)) THEN LStrip(Tail(t)) ELSE t

RECURSIVE RStrip(_)
RStrip(t) ==
  IF t # <<>> /\ IsSpace(t[Len(t)]) THEN RStrip(SubSeq(t, 1, Len(t) - 1))
  ELSE t

\* a strip of the left end only
Strip_left(t) == LStrip(t)

Strip(t) == RStrip(LStrip(t))

\* the texts callers hand to add_resource
Texts == {<<>>, <<" ">>, <<" ", "x">>, <<"y", " ">>}

\* ---------------------------------------------------------------- Student
Student(ut_eid, name, courses, confidence, availability, email, topics_need, study_life, work_hours, resources) ==
  [ut_eid |-> ut_eid,
   name |-> name,
   courses |-> Range(courses),
   compatibility_score |-> 0,
   confidence_level |-> confidence,
   individual_availability |-> Range(availability),
   email |-> email,
   topics_need |-> Range(topics_need),
   study_life |-> Lower(study_life),
   work_hours |-> work_hours,
   resources |-> resources]

\* the four rows of sample_data, in file order
sample_data ==
  << Student("jsmith", "John", <<"CS 313E", "M 408C">>, 5,
             <<"Mon 3pm", "Wed 4pm">>, "john.smith@utexas.edu",
             <<"Heaps", "Trees">>, "quiet", 6, <<>>),
     Student("aavila", "Ana", <<"CS 313E", "GOV 310">>, 1,
             <<"Mon 3pm", "Tue 10am">>, "ana.avila@utexas.edu",
             <<"Heaps">>, "quiet", 4, <<>>),
     Student("bchen", "Ben", <<"CS 313E", "M 408C">>, 3,
             <<"Fri 1pm">>, "ben.chen@utexas.edu",
             <<"Trees">>, "group", 3, <<>>),
     Student("ajones", "Alex", <<"CS 313E", "GOV 310", "PHI 301">>, 4,
             <<"Tue 10am", "Wed 4pm">>, "alex.jones@utexas.edu",
             <<"Heaps">>, "quiet", 4, <<>>) >>

\* rows a students.csv can hold beside the sample: the fields that enter
\* the score, as load_data parses them
Profiles ==
  { [courses |-> <<"CS 313E", "GOV 310">>, confidence |-> 1,
     availability |-> <<"Mon 3pm", "Tue 10am">>, topics |-> <<"Heaps">>,
     study_life |-> "quiet", work_hours |-> 4],
    [courses |-> <<"CS 313E", "M 408C">>, confidence |-> 5,
     availability |-> <<"Mon 3pm", "Wed 4pm">>,
     topics |-> <<"Heaps", "Trees">>,
     study_life |-> "Quiet", work_hours |-> 6],
    [courses |-> <<"M 408C">>, confidence |-> 3,
     availability |-> <<>>, topics |-> <<>>,
     study_life |-> "NONE", work_hours |-> 20],
    [courses |-> <<"CS 313E", "CS 313E">>, confidence |-> 1,
     availability |-> <<"Mon 3pm">>, topics |-> <<>>,
     study_life |-> "none", work_hours |-> 4],
    [courses |-> <<"GOV 310", "M 408C">>, confidence |-> 2,
     availability |-> <<"Tue 10am", "Mon 3pm">>, topics |-> <<"Trees">>,
     study_life |-> "Group", work_hours |-> 13] }

Row(eid, name, p) ==
  Student(eid, name, p.courses, p.confidence, p.availability, "",
          p.topics, p.study_life, p.work_hours, <<>>)

\* what load_data leaves in student_index: the sample file, or a file of
\* three rows
load_data ==
  {sample_data} \cup
  { << Row("s1", "Sam", p1), Row("s2", "SAM", p2), Row("s3", "Sue", p3) >> :
      p1 \in Profiles, p2 \in Profiles, p3 \in Profiles }

\* two of the three-row files: one where s1 and s3 score the same against
\* s2, one without equal scores
load_data_small ==
  { << Row("s1", "Sam", p), Row("s2", "SAM", q), Row("s3", "Sue", p) >> :
      p \in {r \in Profiles : r.confidence = 5},
      q \in {r \in Profiles : r.work_hours = 13} } \cup
  { << Row("s1", "Sam", p), Row("s2", "SAM", q), Row("s3", "Sue", r) >> :
      p \in {r \in Profiles : r.confidence = 5},
      q \in {r \in Profiles : r.work_hours = 13},
      r \in {r \in Profiles : r.work_hours = 20} }

\* dict.get: the position of the record with this key, 0 when absent
Pos(idx, eid) ==
  IF \E i \in 1..Len(idx) : idx[i].ut_eid = eid
  THEN CHOOSE i \in 1..Len(idx) : idx[i].ut_eid = eid
  ELSE 0

Known(idx, eid) == Pos(idx, eid) # 0

Get(idx, eid) == idx[Pos(idx, eid)]

Keys(idx) == {idx[i].ut_eid : i \in 1..Len(idx)}

\* ------------------------------------------------------------------ heapq
\* (-score, candidate) < (-score, candidate): the first components decide
\* unless equal; then the same object makes the tuples equal, and two
\* different Student objects are compared by Student.__lt__
Student_lt(idx, self, other) ==
  Get(idx, self).compatibility_score < Get(idx, other).compatibility_score

MatchLt(idx, a, b) ==
  IF a[1] # b[1] THEN a[1] < b[1]
  ELSE IF a[2] = b[2] THEN FALSE
  ELSE Student_lt(idx, a[2], b[2])

\* (-shared, name, eid) < (-shared, name, eid) on ints and strs
TieLt(a, b) ==
  IF a[1] # b[1] THEN a[1] < b[1]
  ELSE IF a[2] # b[2] THEN StrLt(a[2], b[2])
  ELSE IF a[3] # b[3] THEN StrLt(a[3], b[3])
  ELSE FALSE

\* the entry kinds are told apart by their length
ItemLt(idx, a, b) == IF Len(a) = 2 THEN MatchLt(idx, a, b) ELSE TieLt(a, b)

\* heapq._siftdown: move newitem from pos towards startpos past every
\* parent it is smaller than
RECURSIVE siftdown(_, _, _, _, _)
siftdown(idx, heap, startpos, pos, newitem) ==
  IF pos > startpos
  THEN LET parentpos == (pos - 1) \div 2
           parent == heap[parentpos + 1]
       IN IF ItemLt(idx, newitem, parent)
          THEN siftdown(idx, [heap EXCEPT ![pos + 1] = parent],
                        startpos, parentpos, newitem)
          ELSE [heap EXCEPT ![pos + 1] = newitem]
  ELSE [heap EXCEPT ![pos + 1] = newitem]

\* heapq._siftup: bubble the smaller child up until a leaf is reached, put
\* newitem there and sift it down again
RECURSIVE siftup(_, _, _, _, _)
siftup(idx, heap, startpos, pos, newitem) ==
  LET endpos == Len(heap)
      leftpos == 2 * pos + 1
      rightpos == leftpos + 1
      childpos == IF rightpos < endpos
                     /\ ~ItemLt(idx, heap[leftpos + 1], heap[rightpos + 1])
                  THEN rightpos ELSE leftpos
  IN IF leftpos < endpos
     THEN siftup(idx, [heap EXCEPT ![pos + 1] = heap[childpos + 1]],
                 startpos, childpos, newitem)
     ELSE siftdown(idx, [heap EXCEPT ![pos + 1] = newitem],
                   startpos, pos, newitem)

\* a push that appends and never sifts
heappush_append(idx, heap, item) == Append(heap, item)

heappush(idx, heap, item) ==
  siftdown(idx, Append(heap, item), 0, Len(heap), item)

\* a heappop that reads the top and leaves it in the heap
heappop_peek(idx, heap) == [item |-> heap[1], heap |-> heap]

\* heapq.heappop on a non-empty heap: the item returned and the heap left
heappop(idx, heap) ==
  LET lastelt == heap[Len(heap)]
      rest == SubSeq(heap, 1, Len(heap) - 1)
  IN IF rest # <<>>
     THEN [item |-> rest[1], heap |-> siftup(idx, rest, 0, 0, lastelt)]
     ELSE [item |-> lastelt, heap |-> rest]

\* ---------------------------------------------------------------- scoring
\* a score whose style term also pays for two unspecified styles
score_any_style(seeker, candidate) ==
  Cardinality(seeker.courses \cap candidate.courses) * 10
  + Abs(seeker.confidence_level - candidate.confidence_level) * 3
  + Cardinality(seeker.individual_availability
                  \cap candidate.individual_availability) * 5
  + (IF seeker.topics_need # {} /\ candidate.topics_need # {}
     THEN Cardinality(seeker.topics_need \cap candidate.topics_need) * 15
     ELSE 0)
  + (IF seeker.study_life = candidate.study_life THEN 12 ELSE 0)
  + Max(0, 10 - Abs(seeker.work_hours - candidate.work_hours))

\* a score whose confidence term is the candidate's lead over the seeker
score_signed_confidence(seeker, candidate) ==
  Cardinality(seeker.courses \cap candidate.courses) * 10
  + Max(0, candidate.confidence_level - seeker.confidence_level) * 3
  + Cardinality(seeker.individual_availability
                  \cap candidate.individual_availability) * 5
  + (IF seeker.topics_need # {} /\ candidate.topics_need # {}
     THEN Cardinality(seeker.topics_need \cap candidate.topics_need) * 15
     ELSE 0)
  + (IF seeker.study_life # "none" /\ candidate.study_life # "none"
        /\ seeker.study_life = candidate.study_life
     THEN 12 ELSE 0)
  + Max(0, 10 - Abs(seeker.work_hours - candidate.work_hours))

\* the score find_matches computes for one candidate (the write of the
\* partial score to compatibility_score is overwritten before the loop
\* body ends)
score(seeker, candidate) ==
  LET shared_courses == seeker.courses \cap candidate.courses
      confidence_diff ==
        Abs(seeker.confidence_level - candidate.confidence_level)
      shared_slots == seeker.individual_availability
                        \cap candidate.individual_availability
      shared_topics == seeker.topics_need \cap candidate.topics_need
      difference == Abs(seeker.work_hours - candidate.work_hours)
      work_score == Max(0, 10 - difference)
  IN Cardinality(shared_courses) * 10
     + confidence_diff * 3
     + Cardinality(shared_slots) * 5
     + (IF seeker.topics_need # {} /\ candidate.topics_need # {}
        THEN Cardinality(shared_topics) * 15 ELSE 0)
     + (IF seeker.study_life # "none" /\ candidate.study_life # "none"
           /\ seeker.study_life = candidate.study_life
        THEN 12 ELSE 0)
     + work_score

\* a find_matches that keeps the entries of the ranking before
reset_heap_keep(heap) == heap

\* the heap find_matches starts from
reset_heap(heap) == <<>>

\* a priority that is the score itself
priority_min(sc) == sc

\* the first component of the pair pushed for a score: heapq is a min-heap
priority(sc) == -sc

\* a loop body that writes compatibility_score only after the pushes, so
\* that the pushes compare the candidate by its score of an earlier pass
find_matches_body_late_write(st, seeker_eid, i) ==
  LET seeker == Get(st.idx, seeker_eid)
      candidate == st.idx[i]
      sc == score(seeker, candidate)
      shared_courses == seeker.courses \cap candidate.courses
  IN IF candidate.ut_eid = seeker_eid
     THEN st
     ELSE [idx |-> [st.idx EXCEPT ![i].compatibility_score = sc],
           mh |-> heappush(st.idx, st.mh, <<priority(sc), candidate.ut_eid>>),
           tb |-> heappush(st.idx, st.tb,
                           <<-Cardinality(shared_courses),
                             Lower(candidate.name), candidate.ut_eid>>)]

\* a loop body that leaves the partial score (courses, confidence and
\* slots) in compatibility_score and pushes the full one
find_matches_body_partial_write(st, seeker_eid, i) ==
  LET seeker == Get(st.idx, seeker_eid)
      candidate == st.idx[i]
      sc == score(seeker, candidate)
      shared_courses == seeker.courses \cap candidate.courses
      partial ==
        Cardinality(shared_courses) * 10
        + Abs(seeker.confidence_level - candidate.confidence_level) * 3
        + Cardinality(seeker.individual_availability
                        \cap candidate.individual_availability) * 5
      idx2 == [st.idx EXCEPT ![i].compatibility_score = partial]
  IN IF candidate.ut_eid = seeker_eid
     THEN st
     ELSE [idx |-> idx2,
           mh |-> heappush(idx2, st.mh, <<priority(sc), candidate.ut_eid>>),
           tb |-> heappush(idx2, st.tb,
                           <<-Cardinality(shared_courses),
                             Lower(candidate.name), candidate.ut_eid>>)]

\* a loop body that scores the seeker against itself before skipping it
find_matches_body_scores_seeker(st, seeker_eid, i) ==
  LET seeker == Get(st.idx, seeker_eid)
      candidate == st.idx[i]
      sc == score(seeker, candidate)
      shared_courses == seeker.courses \cap candidate.courses
      idx2 == [st.idx EXCEPT ![i].compatibility_score = sc]
  IN IF candidate.ut_eid = seeker_eid
     THEN [st EXCEPT !.idx = idx2]
     ELSE [idx |-> idx2,
           mh |-> heappush(idx2, st.mh, <<priority(sc), candidate.ut_eid>>),
           tb |-> heappush(idx2, st.tb,
                           <<-Cardinality(shared_courses),
                             Lower(candidate.name), candidate.ut_eid>>)]

\* one pass of the loop body of find_matches, for the record at position i
find_matches_body(st, seeker_eid, i) ==
  LET seeker == Get(st.idx, seeker_eid)
      candidate == st.idx[i]
      sc == score(seeker, candidate)
      shared_courses == seeker.courses \cap candidate.courses
      idx2 == [st.idx EXCEPT ![i].compatibility_score = sc]
  IN IF candidate.ut_eid = seeker_eid
     THEN st
     ELSE [idx |-> idx2,
           mh |-> heappush(idx2, st.mh, <<priority(sc), candidate.ut_eid>>),
           tb |-> heappush(idx2, st.tb,
                           <<-Cardinality(shared_courses),
                             Lower(candidate.name), candidate.ut_eid>>)]

\* the loop of find_matches over student_index.items(), from position i on
RECURSIVE find_matches_loop(_, _, _)
find_matches_loop(st, seeker_eid, i) ==
  IF i > Len(st.idx) THEN st
  ELSE find_matches_loop(find_matches_body(st, seeker_eid, i),
                         seeker_eid, i + 1)

\* ------------------------------------------------------------- operations
\* the identifiers callers pass: every key of student_index, and another
Eids == Keys(student_index) \cup {"nobody"}

\* the calls so far that made tie_break_heap, a resource list or
\* open_slots_queue grow
TotalResources ==
  LET RECURSIVE sum(_)
      sum(i) == IF i = 0 THEN 0
                ELSE Len(student_index[i].resources) + sum(i - 1)
  IN sum(Len(student_index))

Growth ==
  Len(tie_break_heap) \div (Len(student_index) - 1)
    + TotalResources + Len(open_slots_queue)

\* the last call and what it returned
NoRet == [op |-> "none", eid |-> None, text |-> <<>>, found |-> FALSE,
          partner |-> None, shared_slots |-> {}, shared_courses |-> {},
          resources |-> <<>>]

InitWith(files) ==
  /\ student_index \in files
  /\ open_slots_queue = <<>>
  /\ match_heap = <<>>
  /\ tie_break_heap = <<>>
  /\ ret = NoRet
  /\ ranked_for = None
  /\ drained = <<>>

\* a lookup failure that has already dropped the ranking
find_matches_reset_first(seeker_eid) ==
  /\ match_heap' = <<>>
  /\ ret' = [NoRet EXCEPT !.op = "find_matches", !.eid = seeker_eid]
  /\ UNCHANGED <<student_index, open_slots_queue, tie_break_heap,
                 ranked_for, drained>>

\* "Seeker not found"
find_matches_not_found(seeker_eid) ==
  /\ ret' = [NoRet EXCEPT !.op = "find_matches", !.eid = seeker_eid]
  /\ UNCHANGED <<student_index, open_slots_queue, match_heap,
                 tie_break_heap, ranked_for, drained>>

find_matches(seeker_eid) ==
  IF ~Known(student_index, seeker_eid)
  THEN find_matches_not_found(seeker_eid)
  ELSE LET st == find_matches_loop([idx |-> student_index,
                                    mh |-> reset_heap(match_heap),
                                    tb |-> tie_break_heap],
                                   seeker_eid, 1)
       IN /\ Growth < MaxGrowth
          /\ student_index' = st.idx
          /\ match_heap' = st.mh
          /\ tie_break_heap' = st.tb
          /\ ret' = [NoRet EXCEPT !.op = "find_matches", !.eid = seeker_eid,
                                  !.found = TRUE]
          /\ ranked_for' = seeker_eid
          /\ drained' = <<>>
          /\ UNCHANGED open_slots_queue

\* a partner's courses in place of the courses shared with the seeker
shared_courses_partner(seeker, best_match) == best_match.courses

\* the intersections get_best_match returns with the partner
shared_slots_of(seeker, best_match) ==
  seeker.individual_availability \cap best_match.individual_availability

shared_courses_of(seeker, best_match) ==
  seeker.courses \cap best_match.courses

\* a return of None that has already popped the top entry
get_best_match_pop_first(seeker_eid) ==
  /\ match_heap' = IF match_heap = <<>> THEN match_heap
                   ELSE heappop(student_index, match_heap).heap
  /\ ret' = [NoRet EXCEPT !.op = "get_best_match", !.eid = seeker_eid]
  /\ UNCHANGED <<student_index, open_slots_queue, tie_break_heap,
                 ranked_for, drained>>

\* the two returns of None
get_best_match_none(seeker_eid) ==
  /\ ret' = [NoRet EXCEPT !.op = "get_best_match", !.eid = seeker_eid]
  /\ UNCHANGED <<student_index, open_slots_queue, match_heap,
                 tie_break_heap, ranked_for, drained>>

get_best_match(seeker_eid) ==
  IF match_heap = <<>> \/ ~Known(student_index, seeker_eid)
  THEN get_best_match_none(seeker_eid)
  ELSE LET seeker == Get(student_index, seeker_eid)
           popped == heappop(student_index, match_heap)
           best_match == Get(student_index, popped.item[2])
       IN /\ match_heap' = popped.heap
          /\ ret' = [NoRet EXCEPT
                       !.op = "get_best_match", !.eid = seeker_eid,
                       !.found = TRUE, !.partner = best_match.ut_eid,
                       !.shared_slots = shared_slots_of(seeker, best_match),
                       !.shared_courses =
                          shared_courses_of(seeker, best_match)]
          /\ drained' = Append(drained, best_match.ut_eid)
          /\ UNCHANGED <<student_index, open_slots_queue, tie_break_heap,
                         ranked_for>>

\* an append to a list that every record shares
append_resource_shared(idx, i, stripped) ==
  [k \in 1..Len(idx) |-> [idx[k] EXCEPT !.resources = Append(@, stripped)]]

\* student.resources.append(resource), for the record at position i
append_resource(idx, i, stripped) ==
  [idx EXCEPT ![i].resources = Append(@, stripped)]

add_resource(eid, resource) ==
  LET stripped == Strip(resource)
      i == Pos(student_index, eid)
  IN IF ~Known(student_index, eid)
     THEN /\ ret' = [NoRet EXCEPT !.op = "add_resource", !.eid = eid,
                                  !.text = resource]
          /\ UNCHANGED <<student_index, open_slots_queue, match_heap,
                         tie_break_heap, ranked_for, drained>>
     ELSE IF stripped = <<>>
     THEN /\ ret' = [NoRet EXCEPT !.op = "add_resource", !.eid = eid,
                                  !.text = resource, !.found = TRUE]
          /\ UNCHANGED <<student_index, open_slots_queue, match_heap,
                         tie_break_heap, ranked_for, drained>>
     ELSE /\ Growth < MaxGrowth
          /\ student_index' = append_resource(student_index, i, stripped)
          /\ ret' = [NoRet EXCEPT !.op = "add_resource", !.eid = eid,
                                  !.text = resource, !.found = TRUE]
          /\ UNCHANGED <<open_slots_queue, match_heap, tie_break_heap,
                         ranked_for, drained>>

get_resources(eid) ==
  /\ ret' = IF ~Known(student_index, eid)
            THEN [NoRet EXCEPT !.op = "get_resources", !.eid = eid]
            ELSE [NoRet EXCEPT !.op = "get_resources", !.eid = eid,
                    !.found = TRUE,
                    !.resources = Get(student_index, eid).resources]
  /\ UNCHANGED <<student_index, open_slots_queue, match_heap,
                 tie_break_heap, ranked_for, drained>>

Slots == {"Mon 3pm"}

post_availability(time_slot) ==
  /\ Growth < MaxGrowth
  /\ open_slots_queue' = Append(open_slots_queue, time_slot)
  /\ ret' = [NoRet EXCEPT !.op = "post_availability"]
  /\ UNCHANGED <<student_index, match_heap, tie_break_heap, ranked_for,
                 drained>>

Next ==
  \/ \E e \in Eids : find_matches(e)
  \/ \E e \in Eids : get_best_match(e)
  \/ \E e \in Eids, t \in Texts : add_resource(e, t)
  \/ \E e \in Eids : get_resources(e)
  \/ \E s \in Slots : post_availability(s)

Init == InitWith(load_data_small)

Spec == Init /\ [][Next]_vars

\* the matching calls alone, over every file of load_data
MatchInit == InitWith(load_data)

MatchNext ==
  \/ \E e \in Eids : find_matches(e)
  \/ \E e \in Eids : get_best_match(e)

MatchSpec == MatchInit /\ [][MatchNext]_vars

\* ------------------------------------------------------------- properties
N == Len(student_index)

Candidates(s) == Keys(student_index) \ {s}

\* the score find_matches(s) computes for c, on the records as they are
ScoreFor(s, c) == score(Get(student_index, s), Get(student_index, c))

Stored(c) == Get(student_index, c).compatibility_score

HeapEids(heap) == {heap[i][2] : i \in 1..Len(heap)}

IsSample == Keys(student_index) = {"jsmith", "aavila", "bchen", "ajones"}

\* C1: after find_matches(s), the partners that successive successful
\* get_best_match calls return have non-increasing scores against s, are
\* pairwise distinct candidates, and no candidate still in the ranking
\* scores higher than one already returned.
C1_DrainsInScoreOrder ==
  ranked_for # None =>
    /\ \A i, j \in 1..Len(drained) :
         i < j => /\ ScoreFor(ranked_for, drained[i])
                       >= ScoreFor(ranked_for, drained[j])
                  /\ drained[i] # drained[j]
    /\ Range(drained) \subseteq Candidates(ranked_for)
    /\ \A c \in Candidates(ranked_for) \ Range(drained) :
         \A i \in 1..Len(drained) :
           ScoreFor(ranked_for, c) <= ScoreFor(ranked_for, drained[i])

C1_Witness ==
  /\ ranked_for # None
  /\ ret.op = "get_best_match" /\ ret.found /\ ret.eid = ranked_for
  /\ Len(drained) = 2
  /\ ScoreFor(ranked_for, drained[1]) > ScoreFor(ranked_for, drained[2])
  /\ \E c \in Candidates(ranked_for) \ Range(drained) :
       ScoreFor(ranked_for, c) < ScoreFor(ranked_for, drained[2])

\* the six contributions of the score of c for seeker s
CourseOverlap(a, b) == 10 * Cardinality(a.courses \cap b.courses)

ConfidenceMismatch(a, b) ==
  3 * (IF a.confidence_level >= b.confidence_level
       THEN a.confidence_level - b.confidence_level
       ELSE b.confidence_level - a.confidence_level)

AvailabilityOverlap(a, b) ==
  5 * Cardinality(a.individual_availability \cap b.individual_availability)

TopicOverlap(a, b) ==
  IF a.topics_need = {} \/ b.topics_need = {} THEN 0
  ELSE 15 * Cardinality(a.topics_need \cap b.topics_need)

StyleMatch(a, b) ==
  IF a.study_life = "none" \/ b.study_life = "none" THEN 0
  ELSE IF a.study_life = b.study_life THEN 12 ELSE 0

WorkloadSimilarity(a, b) ==
  LET d == IF a.work_hours >= b.work_hours THEN a.work_hours - b.work_hours
           ELSE b.work_hours - a.work_hours
  IN IF d >= 10 THEN 0 ELSE 10 - d

SixContributions(a, b) ==
  CourseOverlap(a, b) + ConfidenceMismatch(a, b) + AvailabilityOverlap(a, b)
    + TopicOverlap(a, b) + StyleMatch(a, b) + WorkloadSimilarity(a, b)

\* C2: the score find_matches(s) stores for every candidate c, in the
\* candidate's compatibility_score and (negated) in its heap entry, is the
\* sum of the six contributions.
C2_ScoreIsSumOfSix ==
  ranked_for # None =>
    /\ \A c \in Candidates(ranked_for) :
         Stored(c) = SixContributions(Get(student_index, ranked_for),
                                      Get(student_index, c))
    /\ \A i \in 1..Len(match_heap) :
         -match_heap[i][1] =
            SixContributions(Get(student_index, ranked_for),
                             Get(student_index, match_heap[i][2]))

\* a pair where both styles are "none", a pair where one topic set is
\* empty and a pair more than ten work hours apart have been scored
C2_Witness ==
  /\ ret.op = "find_matches" /\ ret.found
  /\ \E c \in Candidates(ranked_for) :
       /\ Get(student_index, c).study_life = "none"
       /\ Get(student_index, ranked_for).study_life = "none"
       /\ Stored(c) > 0
  /\ \E c \in Candidates(ranked_for) :
       /\ Get(student_index, c).topics_need # {}
       /\ Get(student_index, ranked_for).topics_need = {}
  /\ \E c \in Candidates(ranked_for) :
       Abs(Get(student_index, c).work_hours
             - Get(student_index, ranked_for).work_hours) > 10

\* C3: the score find_matches(a) stores for b is the score find_matches(b)
\* computes for a.
C3_ScoreSymmetric ==
  ranked_for # None =>
    \A b \in Candidates(ranked_for) : Stored(b) = ScoreFor(b, ranked_for)

C3_Witness ==
  /\ ret.op = "find_matches" /\ ret.found
  /\ \E b \in Candidates(ranked_for) :
       /\ Stored(b) = ScoreFor(b, ranked_for)
       /\ Get(student_index, b).confidence_level
            > Get(student_index, ranked_for).confidence_level
       /\ Get(student_index, b).work_hours
            # Get(student_index, ranked_for).work_hours
       /\ Get(student_index, b).courses
            # Get(student_index, ranked_for).courses

\* C4: in the four-record scenario with seeker A (aavila), find_matches
\* scores B (jsmith) at 62 and D (ajones) at 71, the first get_best_match
\* returns D and the second returns B.
C4_Scenario ==
  (IsSample /\ ranked_for = "aavila") =>
    /\ Stored("jsmith") = 62
    /\ Stored("ajones") = 71
    /\ Len(drained) >= 1 => drained[1] = "ajones"
    /\ Len(drained) >= 2 => drained[2] = "jsmith"

C4_Witness ==
  /\ IsSample /\ ranked_for = "aavila"
  /\ ret.op = "get_best_match" /\ ret.eid = "aavila"
  /\ ret.partner = "jsmith"
  /\ drained = <<"ajones", "jsmith">>

\* C5: right after find_matches(s) for a known s, the match heap holds
\* exactly one entry for every record other than s, none for s and none
\* from an earlier call, each keyed by the candidate's score against s.
C5_HeapAfterFind ==
  (ret.op = "find_matches" /\ ret.found) =>
    /\ Len(match_heap) = N - 1
    /\ HeapEids(match_heap) = Candidates(ret.eid)
    /\ \A i \in 1..Len(match_heap) :
         match_heap[i][1] = -ScoreFor(ret.eid, match_heap[i][2])

\* a second find_matches, for another seeker
C5_Witness ==
  /\ ret.op = "find_matches" /\ ret.found
  /\ Len(tie_break_heap) = 2 * (N - 1)
  /\ \E i \in 1..Len(tie_break_heap) : tie_break_heap[i][3] = ret.eid

MatcherState ==
  <<student_index, open_slots_queue, match_heap, tie_break_heap>>

\* C6: find_matches(id) with id not in student_index reports not-found
\* and leaves the ranking, every compatibility_score and all other state
\* of the matcher as they were.
C6_FindUnknownNoEffect ==
  [][(ret'.op = "find_matches" /\ ~Known(student_index, ret'.eid))
       => (~ret'.found /\ UNCHANGED MatcherState
           /\ UNCHANGED <<ranked_for, drained>>)]_vars

C6_Witness ==
  /\ ret.op = "find_matches" /\ ~ret.found
  /\ ~Known(student_index, ret.eid)
  /\ match_heap # <<>> /\ drained # <<>>
  /\ \E c \in Keys(student_index) : Stored(c) > 0

\* C7: get_best_match(id) returns the absent result when the heap is empty
\* (never ranked, or exhausted) or id is unknown, and then removes no
\* entry and changes no other state.
C7_AbsentNoEffect ==
  [][(ret'.op = "get_best_match"
        /\ (match_heap = <<>> \/ ~Known(student_index, ret'.eid)))
       => (~ret'.found /\ ret'.partner = None /\ UNCHANGED MatcherState
           /\ UNCHANGED <<ranked_for, drained>>)]_vars

\* an unknown seeker asked of a populated ranking
C7_Witness ==
  /\ ret.op = "get_best_match" /\ ~ret.found
  /\ ~Known(student_index, ret.eid)
  /\ Len(match_heap) = N - 1 /\ N > 1

\* C8: a successful get_best_match removes exactly one entry, that of the
\* partner returned; with the ranking of find_matches on N records exactly
\* N - 1 calls succeed (those returned and those left add up to N - 1, and
\* a call with a known id succeeds while an entry is left); on the empty
\* heap get_best_match returns absent and leaves it empty; only a
\* successful find_matches adds entries.
C8_TwoStateRanking ==
  [][/\ ranked_for' # None =>
          Len(match_heap') + Len(drained') = Len(student_index') - 1
     /\ (ret'.op = "get_best_match" /\ ret'.found) =>
          /\ Len(match_heap') = Len(match_heap) - 1
          /\ HeapEids(match_heap') = HeapEids(match_heap) \ {ret'.partner}
          /\ ret'.partner \in HeapEids(match_heap)
     /\ (ret'.op = "get_best_match" /\ match_heap # <<>>
           /\ Known(student_index, ret'.eid)) => ret'.found
     /\ (ret'.op = "get_best_match" /\ match_heap = <<>>) =>
          (~ret'.found /\ match_heap' = <<>>)
     /\ (\E i \in 1..Len(match_heap') :
            match_heap'[i][2] \notin HeapEids(match_heap)
            \/ Len(match_heap') > Len(match_heap)) =>
          (ret'.op = "find_matches" /\ ret'.found)]_vars

\* the ranking fully drained, and a further call that returned absent
C8_Witness ==
  /\ ranked_for # None /\ N > 2
  /\ Len(drained) = N - 1 /\ match_heap = <<>>
  /\ ret.op = "get_best_match" /\ ~ret.found /\ Known(student_index, ret.eid)

\* C9: a successful get_best_match(id) returns, with partner p, the
\* intersection of the availability sets of id and p and the intersection of
\* their course sets, for the id passed and the records as they are.
C9_SharedSets ==
  (ret.op = "get_best_match" /\ ret.found) =>
    LET a == Get(student_index, ret.eid)
        b == Get(student_index, ret.partner)
    IN /\ \A x \in a.individual_availability \cup b.individual_availability
               \cup ret.shared_slots :
            x \in ret.shared_slots <=>
              (x \in a.individual_availability
                 /\ x \in b.individual_availability)
       /\ \A x \in a.courses \cup b.courses \cup ret.shared_courses :
            x \in ret.shared_courses <=> (x \in a.courses /\ x \in b.courses)

\* a call for a seeker other than the one ranked for, with a partner that
\* shares some but not all courses and slots
C9_Witness ==
  /\ ret.op = "get_best_match" /\ ret.found /\ ret.eid # ranked_for
  /\ ret.shared_courses # {} /\ ret.shared_slots # {}
  /\ ret.shared_courses # Get(student_index, ret.partner).courses
  /\ ret.shared_slots # Get(student_index, ret.eid).individual_availability

ResourcesOf(idx, eid) == Get(idx, eid).resources

OnlySpace(t) == \A k \in 1..Len(t) : t[k] = " "

\* r is t without its leading and trailing whitespace
IsTrimOf(r, t) ==
  /\ r # <<>>
  /\ r[1] # " " /\ r[Len(r)] # " "
  /\ \E i \in 1..Len(t) :
       /\ i + Len(r) - 1 <= Len(t)
       /\ r = SubSeq(t, i, i + Len(r) - 1)
       /\ \A k \in 1..Len(t) : (k < i \/ k > i + Len(r) - 1) => t[k] = " "

\* C10: add_resource(id, text) with unknown id fails and changes no
\* resource list; with text empty after trimming it leaves the list of id
\* unchanged; otherwise it appends the trimmed text at the end of the list
\* of id and nothing else.  get_resources(id) returns that list, and the
\* empty sequence for an unknown id.
C10_Resources ==
  [][/\ ret'.op = "add_resource" =>
          IF ~Known(student_index, ret'.eid)
          THEN ~ret'.found /\ student_index' = student_index
          ELSE IF OnlySpace(ret'.text)
          THEN student_index' = student_index
          ELSE /\ Len(ResourcesOf(student_index', ret'.eid))
                    = Len(ResourcesOf(student_index, ret'.eid)) + 1
               /\ SubSeq(ResourcesOf(student_index', ret'.eid), 1,
                         Len(ResourcesOf(student_index, ret'.eid)))
                    = ResourcesOf(student_index, ret'.eid)
               /\ IsTrimOf(ResourcesOf(student_index', ret'.eid)
                             [Len(ResourcesOf(student_index, ret'.eid)) + 1],
                           ret'.text)
               /\ \A i \in 1..Len(student_index) :
                    student_index[i].ut_eid # ret'.eid =>
                      student_index'[i] = student_index[i]
     /\ ret'.op = "get_resources" =>
          /\ student_index' = student_index
          /\ ret'.resources =
               IF Known(student_index, ret'.eid)
               THEN ResourcesOf(student_index, ret'.eid)
               ELSE <<>>]_vars

\* a second resource appended behind a different first one, its text
\* handed over with whitespace around it
C10_Witness ==
  /\ ret.op = "add_resource" /\ ret.found
  /\ Len(ResourcesOf(student_index, ret.eid)) = 2
  /\ ResourcesOf(student_index, ret.eid)[1]
       # ResourcesOf(student_index, ret.eid)[2]
  /\ ResourcesOf(student_index, ret.eid)[2] # ret.text
  /\ ~OnlySpace(ret.text)

\* the records as load_data left them: no score written yet
Unscored(idx) ==
  [i \in 1..Len(idx) |-> [idx[i] EXCEPT !.compatibility_score = 0]]

\* the partners a full drain of heap returns, in order
RECURSIVE DrainAll(_, _)
DrainAll(idx, heap) ==
  IF heap = <<>> THEN <<>>
  ELSE LET popped == heappop(idx, heap)
       IN <<popped.item[2]>> \o DrainAll(idx, popped.heap)

\* the order in which a matcher that has served no call before drains the
\* ranking of find_matches(s)
FirstRunOrder(idx, s) ==
  LET st == find_matches_loop([idx |-> Unscored(idx), mh |-> <<>>,
                               tb |-> <<>>], s, 1)
  IN DrainAll(st.idx, st.mh)

IsPrefix(p, q) == Len(p) <= Len(q) /\ p = SubSeq(q, 1, Len(p))

\* C11: for a fixed record collection and seeker s, the partners drained
\* after find_matches(s) come in the order of the first run on a new
\* matcher, equal scores included, whatever find_matches and get_best_match
\* calls for other seekers and whatever partial drains came before.
C11_TieOrderDeterministic ==
  ranked_for # None =>
    /\ IsPrefix(drained, FirstRunOrder(student_index, ranked_for))
    /\ drained \o DrainAll(student_index, match_heap)
         = FirstRunOrder(student_index, ranked_for)

\* a full drain with two partners of equal score, on a matcher whose
\* earlier find_matches for another seeker had scored them differently
C11_Witness ==
  /\ ranked_for # None /\ match_heap = <<>>
  /\ Len(drained) = N - 1
  /\ Len(tie_break_heap) >= 2 * (N - 1)
  /\ \E i \in 1..Len(tie_break_heap) : tie_break_heap[i][3] = ranked_for
  /\ \E i, j \in 1..Len(drained) :
       /\ i < j
       /\ Stored(drained[i]) = Stored(drained[j])
       /\ \E o \in Candidates(ranked_for) :
            ScoreFor(o, drained[i]) # ScoreFor(o, drained[j])

\* C12: every entry in the match heap has the priority of its candidate's
\* current compatibility_score (negated), so the compatibility_score of a
\* partner that get_best_match returns is its score against the seeker of
\* the last successful find_matches.
C12_PriorityIsScratchScore ==
  /\ \A i \in 1..Len(match_heap) :
       match_heap[i][1] = -Stored(match_heap[i][2])
  /\ (ret.op = "get_best_match" /\ ret.found) =>
       Stored(ret.partner) = ScoreFor(ranked_for, ret.partner)

\* a partner returned from the ranking of a second find_matches, whose
\* score against the seeker of the first was another
C12_Witness ==
  /\ ret.op = "get_best_match" /\ ret.found
  /\ match_heap # <<>>
  /\ Len(tie_break_heap) >= 2 * (N - 1)
  /\ \E o \in Keys(student_index) \ {ranked_for, ret.partner} :
       /\ \E i \in 1..Len(tie_break_heap) : tie_break_heap[i][3] = ranked_for
       /\ ScoreFor(o, ret.partner) # Stored(ret.partner)

StaticFields(r) == [r EXCEPT !.compatibility_score = 0]

\* C13: find_matches and get_best_match leave the set of identifiers and
\* every field of every record as they were, except compatibility_score of
\* the candidates; the seeker's own compatibility_score is unchanged, and
\* get_best_match changes no record at all.
C13_OnlyScratchWritten ==
  [][(ret'.op \in {"find_matches", "get_best_match"}) =>
       /\ Len(student_index') = Len(student_index)
       /\ \A i \in 1..Len(student_index) :
            /\ StaticFields(student_index'[i]) = StaticFields(student_index[i])
            /\ student_index[i].ut_eid = ret'.eid =>
                 student_index'[i] = student_index[i]
       /\ ret'.op = "get_best_match" => student_index' = student_index]_vars

\* a find_matches for a seeker that had a score from an earlier pass and
\* resources, with candidates whose scores it changed
C13_Witness ==
  /\ ret.op = "find_matches" /\ ret.found
  /\ Stored(ret.eid) > 0
  /\ \E c \in Candidates(ret.eid) :
       /\ Stored(c) > 0
       /\ ResourcesOf(student_index, c) # <<>>

\* C14: a successful get_best_match(id) never returns record id itself as
\* the partner.
C14_NeverOwnPartner ==
  (ret.op = "get_best_match" /\ ret.found) => ret.partner # ret.eid

\* C15: the tie-break heap holds at most N - 1 entries, one per candidate
\* of the last successful find_matches.
C15_TieBreakReset ==
  /\ Len(tie_break_heap) <= N - 1
  /\ ranked_for # None =>
       {tie_break_heap[i][3] : i \in 1..Len(tie_break_heap)}
         = Candidates(ranked_for)

Scores(idx) == [i \in 1..Len(idx) |-> idx[i].compatibility_score]

\* C16: add_resource and get_resources leave both heaps, every
\* compatibility_score and the resource lists of all records but the one
\* addressed as they were, so the partners drained before and after them
\* are those of the ranking without these calls.
C16_ResourcesApartFromMatching ==
  [][(ret'.op \in {"add_resource", "get_resources"}) =>
       /\ UNCHANGED <<match_heap, tie_break_heap, ranked_for, drained>>
       /\ Scores(student_index') = Scores(student_index)
       /\ \A i \in 1..Len(student_index) :
            student_index[i].ut_eid # ret'.eid =>
              student_index'[i] = student_index[i]
       /\ ranked_for' # None =>
            drained' \o DrainAll(student_index', match_heap')
              = FirstRunOrder(student_index, ranked_for)]_vars

\* a resource added between find_matches and the last get_best_match of a
\* full drain
C16_Witness ==
  /\ ranked_for # None /\ Len(drained) = N - 1
  /\ ret.op = "get_best_match" /\ ret.found
  /\ Len(tie_break_heap) = N - 1
  /\ TotalResources = MaxGrowth - 1

====
